---------------------------- MODULE Spec2Model ----------------------------
(***************************************************************************)
(* Model of build_resume_onepage.py: Markdown resume -> DOCX -> PDF,       *)
(* enforcing one page.                                                     *)
(*                                                                         *)
(* A line of text is a sequence of one-character strings, so that the      *)
(* regular expressions of the program (H2_RE, H3_RE, BULLET_RE, HR_RE, the *)
(* bold pattern) are modelled by what they match, character by character.  *)
(* A document is a sequence of lines.                                      *)
(***************************************************************************)
EXTENDS Integers, Sequences, FiniteSets, TLC

VARIABLES
    \* ---- main(): one run of the command line program
    pc,            \* position of main()
    argv_len,      \* len(sys.argv)
    md_exists,     \* md_path.exists()
    md_text,       \* the lines md_read(md_path) returns
    base_lines,    \* main: base_lines
    cur,           \* main: cur
    fmt_i,         \* index into FMT_PRESETS of the for-loop variable fmt
    rule_i,        \* index into TRIM_RULES of the for-loop variable rule (0: none yet)
    attempts,      \* main: attempts
    pages,         \* main: pages
    docx,          \* the file at docx_path
    pdf,           \* the file at pdf_path
    exit_code,     \* exit status of the process (-1 while running)
    reported,      \* what the OK message names
    nRender,       \* history: calls of md_to_docx
    nConvert,      \* history: calls of docx_to_pdf
    nCount,        \* history: calls of pdf_pages
    nOnePage,      \* history: calls of pdf_pages that returned 1
    profAttempts,  \* history: renders made under the profile of the last render
    \* ---- the pure functions, applied on their own
    in_lines,      \* argument lines
    arg_title,     \* argument section_title / header_title
    arg_n,         \* argument keep_n / keep_k
    op,            \* the function that was applied ("none" before)
    out_lines      \* its result (md_to_docx: the paragraphs of the document)

vars == <<pc, argv_len, md_exists, md_text, base_lines, cur, fmt_i, rule_i,
          attempts, pages, docx, pdf, exit_code, reported,
          nRender, nConvert, nCount, nOnePage, profAttempts,
          in_lines, arg_title, arg_n, op, out_lines>>

mainVars == <<pc, argv_len, md_exists, md_text, base_lines, cur, fmt_i, rule_i,
              attempts, pages, docx, pdf, exit_code, reported,
              nRender, nConvert, nCount, nOnePage, profAttempts>>

fnVars == <<in_lines, arg_title, arg_n, op, out_lines>>

-----------------------------------------------------------------------------
(* Bounds *)

\* longest argument list given to a pure function
MaxLen == 4

\* largest keep_n tried with keep_only_projects
MaxKeepN == 2

\* largest keep_k tried with trim_bullets_under
MaxKeepK == 1

\* largest page count the page counter returns
MaxPages == 2

\* largest len(sys.argv) main() is run with
MaxArgv == 5

\* longest header block given to md_to_docx
MaxHeaderLines == 2

-----------------------------------------------------------------------------
(* Characters and strings *)

\* the characters \s matches that a line from str.splitlines() can hold
Whitespace == {" ", "\t"}

IsSpace(c) == c \in Whitespace

LowerCase ==
    <<"a","b","c","d","e","f","g","h","i","j","k","l","m",
      "n","o","p","q","r","s","t","u","v","w","x","y","z">>

UpperCase ==
    <<"A","B","C","D","E","F","G","H","I","J","K","L","M",
      "N","O","P","Q","R","S","T","U","V","W","X","Y","Z">>

\* str.upper() on one character
upper_char(c) ==
    IF \E i \in 1..26 : LowerCase[i] = c
    THEN UpperCase[CHOOSE i \in 1..26 : LowerCase[i] = c]
    ELSE c

\* str.upper()
upper(s) == [i \in 1..Len(s) |-> upper_char(s[i])]

\* `sub in s` for strings
Contains(s, sub) ==
    \E i \in 0..(Len(s) - Len(sub)) :
        \A j \in 1..Len(sub) : s[i + j] = sub[j]

\* str.startswith
startswith(s, prefix) ==
    /\ Len(s) >= Len(prefix)
    /\ \A j \in 1..Len(prefix) : s[j] = prefix[j]

Min(S) == CHOOSE x \in S : \A y \in S : x <= y

\* str.rstrip()
rstrip(s) ==
    LET keep == {i \in 1..Len(s) : ~IsSpace(s[i])}
    IN  IF keep = {} THEN <<>>
        ELSE SubSeq(s, 1, CHOOSE i \in keep : \A j \in keep : j <= i)

\* str.lstrip()
lstrip(s) ==
    LET keep == {i \in 1..Len(s) : ~IsSpace(s[i])}
    IN  IF keep = {} THEN <<>>
        ELSE SubSeq(s, Min(keep), Len(s))

\* str.strip()
strip(s) == lstrip(rstrip(s))

\* re.sub(r"\s{2,}$", "", s): a trailing run of two or more whitespace
\* characters is removed, a single trailing one stays
sub_linebreak_spaces(s) ==
    LET t == rstrip(s)
    IN  IF Len(s) - Len(t) >= 2 THEN t ELSE s

\* HR_RE.match(s):  ^\s*-{3,}\s*$
HR_RE_match(s) ==
    LET t == strip(s)
    IN  /\ Len(t) >= 3
        /\ \A i \in 1..Len(t) : t[i] = "-"

\* ^#{n}\s+(.+)$ matches s: n hashes, at least one whitespace character,
\* and at least one more character (which may itself be whitespace)
HeaderMatch(s, n) ==
    /\ Len(s) >= n + 2
    /\ \A i \in 1..n : s[i] = "#"
    /\ IsSpace(s[n + 1])

\* group(1) of that match: \s+ is greedy but leaves one character to (.+)
HeaderGroup(s, n) ==
    LET nonws == {i \in (n + 2)..Len(s) : ~IsSpace(s[i])}
    IN  IF nonws = {} THEN SubSeq(s, Len(s), Len(s))
        ELSE SubSeq(s, Min(nonws), Len(s))

\* H2_RE.match(s):  ^##\s+(.+)$
H2_RE_match(s) == HeaderMatch(s, 2)

\* H3_RE.match(s):  ^###\s+(.+)$
H3_RE_match(s) == HeaderMatch(s, 3)

\* H3_RE.match(s).group(1)
H3_RE_group(s) == HeaderGroup(s, 3)

\* BULLET_RE.match(s):  ^\s*-\s+(.+)$
BULLET_RE_match(s) ==
    LET t == lstrip(s)
    IN  /\ Len(t) >= 3
        /\ t[1] = "-"
        /\ IsSpace(t[2])

\* where the leftmost match of \*\*(.+?)\*\* in s starts: at a pair of stars
\* that is followed by at least one character and then a later pair of stars
BoldStarts(s) ==
    {i \in 1..(Len(s) - 4) :
        /\ s[i] = "*" /\ s[i + 1] = "*"
        /\ \E j \in (i + 3)..(Len(s) - 1) : s[j] = "*" /\ s[j + 1] = "*"}

\* where the non-greedy (.+?) of the match starting at i ends: before the
\* nearest pair of stars that leaves it one character
BoldClose(s, i) ==
    Min({j \in (i + 3)..(Len(s) - 1) : s[j] = "*" /\ s[j + 1] = "*"})

\* re.sub(r"\*\*(.+?)\*\*", r"\1", s): every match, leftmost first and not
\* overlapping, is replaced by its group
RECURSIVE sub_bold(_)
sub_bold(s) ==
    IF BoldStarts(s) = {} THEN s
    ELSE LET i == Min(BoldStarts(s))
             j == BoldClose(s, i)
         IN  SubSeq(s, 1, i - 1) \o SubSeq(s, i + 2, j - 1)
                \o sub_bold(SubSeq(s, j + 2, Len(s)))

strip_md_bold(s) == strip(sub_bold(s))

\* the marker keep_only_projects looks for in line.upper()
TECHNICAL_PROJECT ==
    <<"T","E","C","H","N","I","C","A","L"," ","P","R","O","J","E","C","T">>

-----------------------------------------------------------------------------
(* normalize_whitespace *)

\* a horizontal rule ends the run of blank lines
RECURSIVE nw_loop_hr_resets(_, _, _, _)
nw_loop_hr_resets(lines, i, cleaned, blank) ==
    IF i > Len(lines) THEN cleaned
    ELSE LET ln == sub_linebreak_spaces(rstrip(lines[i]))
         IN  IF HR_RE_match(ln)
             THEN nw_loop_hr_resets(lines, i + 1, cleaned, 0)
             ELSE IF strip(ln) = <<>>
                  THEN nw_loop_hr_resets(lines, i + 1,
                               IF blank + 1 <= 1 THEN Append(cleaned, <<>>) ELSE cleaned,
                               blank + 1)
                  ELSE nw_loop_hr_resets(lines, i + 1, Append(cleaned, ln), 0)

RECURSIVE nw_loop(_, _, _, _)
nw_loop(lines, i, cleaned, blank) ==
    IF i > Len(lines) THEN cleaned
    ELSE LET ln == sub_linebreak_spaces(rstrip(lines[i]))
         IN  IF HR_RE_match(ln)
             THEN nw_loop(lines, i + 1, cleaned, blank)
             ELSE IF strip(ln) = <<>>
                  THEN nw_loop(lines, i + 1,
                               IF blank + 1 <= 1 THEN Append(cleaned, <<>>) ELSE cleaned,
                               blank + 1)
                  ELSE nw_loop(lines, i + 1, Append(cleaned, ln), 0)

normalize_whitespace(lines) == nw_loop(lines, 1, <<>>, 0)

-----------------------------------------------------------------------------
(* Trim logic *)

\* the skip stops at a subsection header only, as trim_bullets_under's scope does
RECURSIVE ds_skip_h3_only(_, _)
ds_skip_h3_only(lines, i) ==
    IF i <= Len(lines) /\ ~H3_RE_match(lines[i])
    THEN ds_skip_h3_only(lines, i + 1)
    ELSE i

\* the inner while of drop_section: the first index from i on that holds a
\* subsection or section header, Len(lines) + 1 when there is none
RECURSIVE ds_skip(_, _)
ds_skip(lines, i) ==
    IF i <= Len(lines) /\ ~H3_RE_match(lines[i]) /\ ~H2_RE_match(lines[i])
    THEN ds_skip(lines, i + 1)
    ELSE i

RECURSIVE ds_loop(_, _, _, _)
ds_loop(lines, section_title, i, out) ==
    IF i > Len(lines) THEN out
    ELSE IF H3_RE_match(lines[i]) /\ strip_md_bold(H3_RE_group(lines[i])) = section_title
         THEN ds_loop(lines, section_title, ds_skip(lines, i + 1), out)
         ELSE ds_loop(lines, section_title, i + 1, Append(out, lines[i]))

drop_section(lines, section_title) == ds_loop(lines, section_title, 1, <<>>)

RECURSIVE kop_loop(_, _, _, _, _, _, _)
kop_loop(lines, keep_n, i, out, in_projects, project_count, skipping) ==
    IF i > Len(lines) THEN out
    ELSE LET line == lines[i]
         IN  IF H2_RE_match(line) /\ Contains(upper(line), TECHNICAL_PROJECT)
             THEN kop_loop(lines, keep_n, i + 1, Append(out, line),
                           TRUE, project_count, FALSE)
             ELSE IF in_projects /\ H2_RE_match(line)
             THEN kop_loop(lines, keep_n, i + 1, Append(out, line),
                           FALSE, project_count, FALSE)
             ELSE IF in_projects /\ H3_RE_match(line)
             THEN kop_loop(lines, keep_n, i + 1,
                           IF project_count + 1 > keep_n THEN out ELSE Append(out, line),
                           in_projects, project_count + 1, project_count + 1 > keep_n)
             ELSE IF in_projects /\ skipping
             THEN kop_loop(lines, keep_n, i + 1, out,
                           in_projects, project_count, skipping)
             ELSE kop_loop(lines, keep_n, i + 1, Append(out, line),
                           in_projects, project_count, skipping)

keep_only_projects(lines, keep_n) ==
    kop_loop(lines, keep_n, 1, <<>>, FALSE, 0, FALSE)

RECURSIVE tbu_loop(_, _, _, _, _, _, _)
tbu_loop(lines, header_title, keep_k, i, out, in_target, kept) ==
    IF i > Len(lines) THEN out
    ELSE LET line == lines[i]
         IN  IF H3_RE_match(line)
             THEN tbu_loop(lines, header_title, keep_k, i + 1, Append(out, line),
                           strip_md_bold(H3_RE_group(line)) = header_title, 0)
             ELSE IF in_target /\ BULLET_RE_match(line)
             THEN tbu_loop(lines, header_title, keep_k, i + 1,
                           IF kept + 1 <= keep_k THEN Append(out, line) ELSE out,
                           in_target, kept + 1)
             ELSE tbu_loop(lines, header_title, keep_k, i + 1, Append(out, line),
                           in_target, kept)

trim_bullets_under(lines, header_title, keep_k) ==
    tbu_loop(lines, header_title, keep_k, 1, <<>>, FALSE, 0)

\* a rule is a record [kind, title, n]: title is rule[1] of DROP_SECTION and
\* rule[1][0] of TRIM_BULLETS_UNDER, n is rule[1] of KEEP_ONLY_PROJECTS and
\* rule[1][1] of TRIM_BULLETS_UNDER
apply_trim_rule(lines, rule) ==
    IF rule.kind = "DROP_SECTION" THEN drop_section(lines, rule.title)
    ELSE IF rule.kind = "KEEP_ONLY_PROJECTS" THEN keep_only_projects(lines, rule.n)
    ELSE IF rule.kind = "TRIM_BULLETS_UNDER"
         THEN trim_bullets_under(lines, rule.title, rule.n)
    ELSE lines

-----------------------------------------------------------------------------
(* main(): the fit loop *)

TRIM_RULES ==
    << [kind |-> "DROP_SECTION", n |-> 0, title |->
          <<"O","t","h","e","r"," ","P","r","o","f","e","s","s","i","o","n","a","l"," ","E","x","p","e","r","i","e","n","c","e">>],
       [kind |-> "KEEP_ONLY_PROJECTS", n |-> 2, title |-> <<>>],
       [kind |-> "TRIM_BULLETS_UNDER", n |-> 3, title |->
          <<"T","e","c","h","n","i","c","a","l"," ","&"," ","I","T"," ","S","u","p","p","o","r","t"," ","R","o","l","e","s">>],
       [kind |-> "TRIM_BULLETS_UNDER", n |-> 2, title |->
          <<"W","i","n","d","o","w","s"," ","E","v","e","n","t"," ","M","o","n","i","t","o","r","i","n","g"," ","&"," ","M","i","n","i"," ","S","O","C"," ","L","a","b">>],
       [kind |-> "TRIM_BULLETS_UNDER", n |-> 2, title |->
          <<"p","f","S","e","n","s","e"," ","F","i","r","e","w","a","l","l"," ","&"," ","N","e","t","w","o","r","k"," ","S","e","g","m","e","n","t","a","t","i","o","n"," ","L","a","b">>],
       [kind |-> "TRIM_BULLETS_UNDER", n |-> 1, title |->
          <<"S","m","a","l","l"," ","B","u","s","i","n","e","s","s"," ","I","T"," ","&"," ","S","e","c","u","r","i","t","y"," ","A","s","s","e","s","s","m","e","n","t","s">>] >>

\* margins and indents in hundredths of an inch, font sizes in tenths of a
\* point, spacings in points
FMT_PRESETS ==
    << [margin |-> 50, body_pt |-> 100, name_pt |-> 130, h2_pt |-> 106, h3_pt |-> 102,
        h2_before |-> 6, h2_after |-> 2, h3_before |-> 4, h3_after |-> 1,
        para_after |-> 1, bullet_after |-> 0, bullet_left |-> 25, bullet_hang |-> 18],
       [margin |-> 45, body_pt |-> 98, name_pt |-> 125, h2_pt |-> 104, h3_pt |-> 100,
        h2_before |-> 5, h2_after |-> 2, h3_before |-> 3, h3_after |-> 1,
        para_after |-> 0, bullet_after |-> 0, bullet_left |-> 25, bullet_hang |-> 18] >>

\* a resume that DROP_SECTION, KEEP_ONLY_PROJECTS and the last
\* TRIM_BULLETS_UNDER of TRIM_RULES shorten; its lines:
\*   |# N|
\*   |### Other Professional Experience|
\*   |- e|
\*   |### **Small Business IT & Security Assessments**|
\*   |- f|
\*   ||
\*   |- g  |
\*   ||
\*   |---|
\*   ||
\*   |## Technical Projects|
\*   |### A|
\*   |### B|
\*   |### C|
ResumeDoc ==
    << <<"#"," ","N">>,
       <<"#","#","#"," ","O","t","h","e","r"," ","P","r","o","f","e","s","s","i","o","n","a","l"," ","E","x","p","e","r","i","e","n","c","e">>,
       <<"-"," ","e">>,
       <<"#","#","#"," ","*","*","S","m","a","l","l"," ","B","u","s","i","n","e","s","s"," ","I","T"," ","&"," ","S","e","c","u","r","i","t","y"," ","A","s","s","e","s","s","m","e","n","t","s","*","*">>,
       <<"-"," ","f">>,
       <<>>,
       <<"-"," ","g"," "," ">>,
       <<>>,
       <<"-","-","-">>,
       <<>>,
       <<"#","#"," ","T","e","c","h","n","i","c","a","l"," ","P","r","o","j","e","c","t","s">>,
       <<"#","#","#"," ","A">>,
       <<"#","#","#"," ","B">>,
       <<"#","#","#"," ","C">> >>

\* a document no rule of TRIM_RULES changes
ShortDoc ==
    << <<"#"," ","N">>,
       <<>>,
       <<"#","#"," ","S","K","I","L","L","S">>,
       <<"p"," "," ">> >>

\* the source files main() is run on
Docs == {ResumeDoc, ShortDoc}

\* len(sys.argv) main() is run with
ArgvLens == 1..MaxArgv

\* no pure function has been applied
FnIdle ==
    /\ arg_title = <<>>
    /\ arg_n = 0
    /\ op = "none"
    /\ out_lines = <<>>

\* no file at the path
NoFile == [written |-> FALSE, lines |-> <<>>, fmt_i |-> 0]

Init ==
    /\ pc = "start"
    /\ argv_len \in ArgvLens
    /\ md_exists \in BOOLEAN
    /\ md_text \in Docs
    /\ base_lines = <<>>
    /\ cur = <<>>
    /\ fmt_i = 0
    /\ rule_i = 0
    /\ attempts = 0
    /\ pages = 0
    /\ docx = NoFile
    /\ pdf = NoFile
    /\ exit_code = -1
    /\ reported = [attempts |-> 0, rule_i |-> 0]
    /\ nRender = 0
    /\ nConvert = 0
    /\ nCount = 0
    /\ nOnePage = 0
    /\ profAttempts = 0
    /\ in_lines = <<>>
    /\ FnIdle

\* if len(sys.argv) != 4: print usage; sys.exit(2)
UsageError ==
    /\ pc = "start"
    /\ argv_len # 4
    /\ exit_code' = 2
    /\ pc' = "done"
    /\ UNCHANGED <<argv_len, md_exists, md_text, base_lines, cur, fmt_i, rule_i,
                   attempts, pages, docx, pdf, reported,
                   nRender, nConvert, nCount, nOnePage, profAttempts>>
    /\ UNCHANGED fnVars

\* a missing source is reported with the status of a usage error
InputNotFound_exit_2 ==
    /\ pc = "start"
    /\ argv_len = 4
    /\ ~md_exists
    /\ exit_code' = 2
    /\ pc' = "done"
    /\ UNCHANGED <<argv_len, md_exists, md_text, base_lines, cur, fmt_i, rule_i,
                   attempts, pages, docx, pdf, reported,
                   nRender, nConvert, nCount, nOnePage, profAttempts>>
    /\ UNCHANGED fnVars

\* if not md_path.exists(): print error; sys.exit(1)
InputNotFound ==
    /\ pc = "start"
    /\ argv_len = 4
    /\ ~md_exists
    /\ exit_code' = 1
    /\ pc' = "done"
    /\ UNCHANGED <<argv_len, md_exists, md_text, base_lines, cur, fmt_i, rule_i,
                   attempts, pages, docx, pdf, reported,
                   nRender, nConvert, nCount, nOnePage, profAttempts>>
    /\ UNCHANGED fnVars

\* base_lines = normalize_whitespace(md_read(md_path)); attempts = 0
ReadInput ==
    /\ pc = "start"
    /\ argv_len = 4
    /\ md_exists
    /\ base_lines' = normalize_whitespace(md_text)
    /\ attempts' = 0
    /\ pc' = "for_fmt"
    /\ UNCHANGED <<argv_len, md_exists, md_text, cur, fmt_i, rule_i,
                   pages, docx, pdf, exit_code, reported,
                   nRender, nConvert, nCount, nOnePage, profAttempts>>
    /\ UNCHANGED fnVars

\* for fmt in FMT_PRESETS: cur = list(base_lines)
NextProfile ==
    /\ pc = "for_fmt"
    /\ fmt_i < Len(FMT_PRESETS)
    /\ fmt_i' = fmt_i + 1
    /\ cur' = base_lines
    /\ rule_i' = 0
    /\ pc' = "render"
    /\ UNCHANGED <<argv_len, md_exists, md_text, base_lines,
                   attempts, pages, docx, pdf, exit_code, reported,
                   nRender, nConvert, nCount, nOnePage, profAttempts>>
    /\ UNCHANGED fnVars

\* the for loop over FMT_PRESETS is over: print the failure; sys.exit(3)
Exhausted ==
    /\ pc = "for_fmt"
    /\ fmt_i >= Len(FMT_PRESETS)
    /\ exit_code' = 3
    /\ pc' = "done"
    /\ UNCHANGED <<argv_len, md_exists, md_text, base_lines, cur, fmt_i, rule_i,
                   attempts, pages, docx, pdf, reported,
                   nRender, nConvert, nCount, nOnePage, profAttempts>>
    /\ UNCHANGED fnVars

\* md_to_docx(cur, docx_path, fmt): the document holds the lines rendered
\* under the profile
md_to_docx(lines, fmt_index) ==
    [written |-> TRUE, lines |-> lines, fmt_i |-> fmt_index]

Render ==
    /\ pc = "render"
    /\ docx' = md_to_docx(cur, fmt_i)
    /\ nRender' = nRender + 1
    /\ profAttempts' = IF docx.written /\ docx.fmt_i = fmt_i
                       THEN profAttempts + 1 ELSE 1
    /\ pc' = "convert"
    /\ UNCHANGED <<argv_len, md_exists, md_text, base_lines, cur, fmt_i, rule_i,
                   attempts, pages, pdf, exit_code, reported,
                   nConvert, nCount, nOnePage>>
    /\ UNCHANGED fnVars

\* docx_to_pdf(docx_path, pdf_path): the converter's output replaces the
\* file at pdf_path
Convert ==
    /\ pc = "convert"
    /\ pdf' = docx
    /\ nConvert' = nConvert + 1
    /\ pc' = "count"
    /\ UNCHANGED <<argv_len, md_exists, md_text, base_lines, cur, fmt_i, rule_i,
                   attempts, pages, docx, exit_code, reported,
                   nRender, nCount, nOnePage, profAttempts>>
    /\ UNCHANGED fnVars

\* docx_to_pdf raises (no soffice, the converter fails, no PDF produced):
\* the exception is not caught and the interpreter exits with status 1
ConvertFails ==
    /\ pc = "convert"
    /\ nConvert' = nConvert + 1
    /\ exit_code' = 1
    /\ pc' = "aborted"
    /\ UNCHANGED <<argv_len, md_exists, md_text, base_lines, cur, fmt_i, rule_i,
                   attempts, pages, docx, pdf, reported,
                   nRender, nCount, nOnePage, profAttempts>>
    /\ UNCHANGED fnVars

\* pages = pdf_pages(pdf_path); attempts += 1
CountPages ==
    /\ pc = "count"
    /\ \E p \in 1..MaxPages :
        /\ pages' = p
        /\ nOnePage' = IF p = 1 THEN nOnePage + 1 ELSE nOnePage
    /\ attempts' = attempts + 1
    /\ nCount' = nCount + 1
    /\ pc' = "check"
    /\ UNCHANGED <<argv_len, md_exists, md_text, base_lines, cur, fmt_i, rule_i,
                   docx, pdf, exit_code, reported,
                   nRender, nConvert, profAttempts>>
    /\ UNCHANGED fnVars

\* the attempts of the current profile are reported
ReportSuccess_profile_attempts ==
    /\ pc = "check"
    /\ pages = 1
    /\ reported' = [attempts |-> rule_i + 1, rule_i |-> rule_i]
    /\ exit_code' = 0
    /\ pc' = "done"
    /\ UNCHANGED <<argv_len, md_exists, md_text, base_lines, cur, fmt_i, rule_i,
                   attempts, pages, docx, pdf,
                   nRender, nConvert, nCount, nOnePage, profAttempts>>
    /\ UNCHANGED fnVars

\* if pages == 1: print OK (naming the rule, if one was applied) and the
\* attempts; return
ReportSuccess ==
    /\ pc = "check"
    /\ pages = 1
    /\ reported' = [attempts |-> attempts, rule_i |-> rule_i]
    /\ exit_code' = 0
    /\ pc' = "done"
    /\ UNCHANGED <<argv_len, md_exists, md_text, base_lines, cur, fmt_i, rule_i,
                   attempts, pages, docx, pdf,
                   nRender, nConvert, nCount, nOnePage, profAttempts>>
    /\ UNCHANGED fnVars

\* the last rule is never tried
more_rules_but_last(r) == r < Len(TRIM_RULES) - 1

\* for rule in TRIM_RULES: a rule is left after the first r
more_rules(r) == r < Len(TRIM_RULES)

\* every rule is applied to the original sequence
trim_step_from_base(lines, rule) ==
    normalize_whitespace(apply_trim_rule(base_lines, rule))

\* the result of a rule is rendered as it is
trim_step_not_normalized(lines, rule) == apply_trim_rule(lines, rule)

\* cur = normalize_whitespace(apply_trim_rule(cur, rule))
trim_step(lines, rule) == normalize_whitespace(apply_trim_rule(lines, rule))

\* pages != 1 and a rule is left: apply it to cur
ApplyNextRule ==
    /\ pc = "check"
    /\ pages # 1
    /\ more_rules(rule_i)
    /\ rule_i' = rule_i + 1
    /\ cur' = trim_step(cur, TRIM_RULES[rule_i + 1])
    /\ pc' = "render"
    /\ UNCHANGED <<argv_len, md_exists, md_text, base_lines, fmt_i,
                   attempts, pages, docx, pdf, exit_code, reported,
                   nRender, nConvert, nCount, nOnePage, profAttempts>>
    /\ UNCHANGED fnVars

\* pages != 1 and no rule is left: on to the next profile
RulesExhausted ==
    /\ pc = "check"
    /\ pages # 1
    /\ ~more_rules(rule_i)
    /\ pc' = "for_fmt"
    /\ UNCHANGED <<argv_len, md_exists, md_text, base_lines, cur, fmt_i, rule_i,
                   attempts, pages, docx, pdf, exit_code, reported,
                   nRender, nConvert, nCount, nOnePage, profAttempts>>
    /\ UNCHANGED fnVars

Next ==
    \/ UsageError
    \/ InputNotFound
    \/ ReadInput
    \/ NextProfile
    \/ Exhausted
    \/ Render
    \/ Convert
    \/ ConvertFails
    \/ CountPages
    \/ ReportSuccess
    \/ ApplyNextRule
    \/ RulesExhausted

Spec == Init /\ [][Next]_vars

-----------------------------------------------------------------------------
(* md_to_docx: contact tokens of the header block *)

Max(S) == CHOOSE x \in S : \A y \in S : y <= x

Digits == {"0","1","2","3","4","5","6","7","8","9"}

Letters == {LowerCase[i] : i \in 1..26} \cup {UpperCase[i] : i \in 1..26}

\* \d
IsDigit(c) == c \in Digits

\* [A-Za-z]
IsLetter(c) == c \in Letters

\* [A-Za-z0-9._%+\-], the local part of EMAIL_RE
EmailLocalChars == Letters \cup Digits \cup {".", "_", "%", "+", "-"}

\* [A-Za-z0-9.\-], the host of EMAIL_RE and of URL_RE
HostChars == Letters \cup Digits \cup {".", "-"}

\* the characters [^\s|,)], the path of URL_RE, stops at
UrlPathStops == Whitespace \cup {"|", ",", ")"}

\* [\s\-\.], the separator of PHONE_RE
IsPhoneSep(c) == c \in Whitespace \cup {"-", "."}

\* str.lower() on one character
lower_char(c) ==
    IF \E i \in 1..26 : UpperCase[i] = c
    THEN LowerCase[CHOOSE i \in 1..26 : UpperCase[i] = c]
    ELSE c

\* str.lower()
lower(s) == [i \in 1..Len(s) |-> lower_char(s[i])]

\* the literal w stands in s at position i
LiteralAt(s, i, w) ==
    /\ i + Len(w) - 1 <= Len(s)
    /\ \A j \in 1..Len(w) : s[i + j - 1] = w[j]

\* a greedy character class X* from position a: the last position of the
\* longest run of X characters that starts at a (a - 1 when it is empty)
RunEnd(s, a, X) ==
    CHOOSE e \in (a - 1)..Len(s) :
        /\ e = Len(s) \/ s[e + 1] \notin X
        /\ \A m \in a..e : s[m] \in X

\* the same for a negated class [^X]*
RunEndNot(s, a, X) ==
    CHOOSE e \in (a - 1)..Len(s) :
        /\ e = Len(s) \/ s[e + 1] \in X
        /\ \A m \in a..e : s[m] \notin X

\* \d{n} stands in s at position a
DigitsAt(s, a, n) ==
    /\ a + n - 1 <= Len(s)
    /\ \A m \in a..(a + n - 1) : IsDigit(s[m])

\* [A-Za-z0-9.-]+\.[A-Za-z]{2,} from position h: the greedy host gives back
\* characters until the last dot of its run that two letters follow; the
\* result is the last position of the letters, 0 without a match
HostTldEnd(s, h) ==
    IF h > Len(s) THEN 0
    ELSE LET m == RunEnd(s, h, HostChars)
             dots == {p \in (h + 1)..m :
                         /\ s[p] = "."
                         /\ p + 2 <= Len(s)
                         /\ IsLetter(s[p + 1])
                         /\ IsLetter(s[p + 2])}
         IN  IF dots = {} THEN 0
             ELSE RunEnd(s, Max(dots) + 1, Letters)

\* EMAIL_RE matched at position i: last position of the match, 0 without one
EMAIL_RE_end(s, i) ==
    LET k == RunEnd(s, i, EmailLocalChars) + 1
    IN  IF k = i \/ k > Len(s) THEN 0
        ELSE IF s[k] # "@" THEN 0
        ELSE HostTldEnd(s, k + 1)

\* (?:\(\d{3}\)|\d{3}) at position a: the position after it, 0 without one
PhoneAreaEnd(s, a) ==
    IF /\ a + 4 <= Len(s)
       /\ s[a] = "("
       /\ DigitsAt(s, a + 1, 3)
       /\ s[a + 4] = ")"
    THEN a + 5
    ELSE IF DigitsAt(s, a, 3) THEN a + 3
    ELSE 0

\* [\s\-\.]? at position a: the position after it
PhoneSepEnd(s, a) ==
    IF a <= Len(s) /\ IsPhoneSep(s[a]) THEN a + 1 ELSE a

\* (?:\(\d{3}\)|\d{3})[\s\-\.]?\d{3}[\s\-\.]?\d{4} at position a: the last
\* position of the match, 0 without one
PhoneNumberEnd(s, a) ==
    LET b == PhoneAreaEnd(s, a)
    IN  IF b = 0 THEN 0
        ELSE LET c == PhoneSepEnd(s, b)
             IN  IF ~DigitsAt(s, c, 3) THEN 0
                 ELSE LET d == PhoneSepEnd(s, c + 3)
                      IN  IF DigitsAt(s, d, 4) THEN d + 3 ELSE 0

\* \+?1[\s\-\.]? at position i: the position after it, 0 without one
PhonePrefixEnd(s, i) ==
    LET a == IF s[i] = "+" THEN i + 1 ELSE i
    IN  IF a <= Len(s) /\ s[a] = "1" THEN PhoneSepEnd(s, a + 1) ELSE 0

\* PHONE_RE matched at position i: the optional country prefix is tried
\* first, then the number without it
PHONE_RE_end(s, i) ==
    LET a == PhonePrefixEnd(s, i)
        w == IF a # 0 THEN PhoneNumberEnd(s, a) ELSE 0
    IN  IF w # 0 THEN w ELSE PhoneNumberEnd(s, i)

HTTP == <<"h","t","t","p",":","/","/">>

HTTPS == <<"h","t","t","p","s",":","/","/">>

WWW == <<"w","w","w",".">>

\* [A-Za-z0-9.-]+\.[A-Za-z]{2,}(?:/[^\s|,)]+)? from position h
UrlHostPathEnd(s, h) ==
    LET e == HostTldEnd(s, h)
    IN  IF e = 0 THEN 0
        ELSE IF /\ e + 2 <= Len(s)
                /\ s[e + 1] = "/"
                /\ s[e + 2] \notin UrlPathStops
        THEN RunEndNot(s, e + 2, UrlPathStops)
        ELSE e

\* (?:www\.)? and the rest from position h: with the prefix first
UrlWwwEnd(s, h) ==
    LET w == IF LiteralAt(s, h, WWW) THEN UrlHostPathEnd(s, h + 4) ELSE 0
    IN  IF w # 0 THEN w ELSE UrlHostPathEnd(s, h)

\* URL_RE matched at position i: with the scheme first
URL_RE_end(s, i) ==
    LET a == IF LiteralAt(s, i, HTTPS) THEN i + 8
             ELSE IF LiteralAt(s, i, HTTP) THEN i + 7
             ELSE i
        w == IF a # i THEN UrlWwwEnd(s, a) ELSE 0
    IN  IF w # 0 THEN w ELSE UrlWwwEnd(s, i)

\* where the matches of a pattern can start, from position pos on; ends[i]
\* is the last position of the match at position i, 0 without one
MatchStarts(ends, pos) ==
    {i \in pos..Len(ends) : ends[i] # 0}

\* re.search(s): the text of the leftmost match in a sequence of one
\* element, the empty sequence for None
re_search(s, ends) ==
    LET starts == MatchStarts(ends, 1)
    IN  IF starts = {} THEN <<>>
        ELSE <<SubSeq(s, Min(starts), ends[Min(starts)])>>

EMAIL_RE_search(s) == re_search(s, [i \in 1..Len(s) |-> EMAIL_RE_end(s, i)])

PHONE_RE_search(s) == re_search(s, [i \in 1..Len(s) |-> PHONE_RE_end(s, i)])

URL_RE_search(s) == re_search(s, [i \in 1..Len(s) |-> URL_RE_end(s, i)])

\* URL_RE.findall(s): the matches from left to right, each search starting
\* after the match before
RECURSIVE URL_RE_findall_from(_, _)
URL_RE_findall_from(s, pos) ==
    LET starts == MatchStarts([i \in 1..Len(s) |-> URL_RE_end(s, i)], pos)
    IN  IF starts = {} THEN <<>>
        ELSE LET i == Min(starts)
                 e == URL_RE_end(s, i)
             IN  <<SubSeq(s, i, e)>> \o URL_RE_findall_from(s, e + 1)

URL_RE_findall(s) == URL_RE_findall_from(s, 1)

\* normalize_url
normalize_url(url) ==
    LET u == strip(url)
    IN  IF startswith(u, HTTP) \/ startswith(u, HTTPS) THEN u
        ELSE HTTPS \o u

\* normalize_tel
normalize_tel(phone) ==
    LET found == SelectSeq(phone, IsDigit)
        digits == IF Len(found) = 10 THEN <<"1">> \o found ELSE found
    IN  IF startswith(digits, <<"1">>) /\ Len(digits) = 11
        THEN <<"+">> \o digits
        ELSE digits

-----------------------------------------------------------------------------
(* md_to_docx: the paragraphs it adds to the document *)

LINKEDIN_COM == <<"l","i","n","k","e","d","i","n",".","c","o","m">>

GITHUB_COM == <<"g","i","t","h","u","b",".","c","o","m">>

LINKEDIN_LABEL == <<"L","i","n","k","e","d","I","n">>

GITHUB_LABEL == <<"G","i","t","H","u","b">>

MAILTO == <<"m","a","i","l","t","o",":">>

TEL == <<"t","e","l",":">>

SEPARATOR == <<" ","|"," ">>

\* " ".join(lines)
RECURSIVE join_space(_)
join_space(lines) ==
    IF lines = <<>> THEN <<>>
    ELSE IF Len(lines) = 1 THEN lines[1]
    ELSE lines[1] \o <<" ">> \o join_space(Tail(lines))

\* p.add_run(text): a run of plain text
add_run(text) == [hyperlink |-> FALSE, url |-> <<>>, text |-> text]

\* add_hyperlink(p, url, text): a run that is a link to url, shown as text
add_hyperlink(url, text) == [hyperlink |-> TRUE, url |-> url, text |-> text]

\* a paragraph of the document: what made it, the text given to add_run or
\* to add_runs_with_bold, and for the contact line the runs it is built of
Paragraph(kind, text, runs) == [kind |-> kind, text |-> text, runs |-> runs]

\* the loop over urls: the first URL with linkedin.com, the first one with
\* github.com, and all the others; None is the empty sequence
RECURSIVE classify_urls(_, _, _, _, _)
classify_urls(urls, i, linkedin, github, other_urls) ==
    IF i > Len(urls)
    THEN [linkedin |-> linkedin, github |-> github, other_urls |-> other_urls]
    ELSE LET u == urls[i]
             u_norm == lower(u)
         IN  IF Contains(u_norm, LINKEDIN_COM) /\ linkedin = <<>>
             THEN classify_urls(urls, i + 1, <<u>>, github, other_urls)
             ELSE IF Contains(u_norm, GITHUB_COM) /\ github = <<>>
             THEN classify_urls(urls, i + 1, linkedin, <<u>>, other_urls)
             ELSE classify_urls(urls, i + 1, linkedin, github,
                                Append(other_urls, u))

\* the first header line that holds no email, phone or URL, stripped; the
\* empty sequence when there is none
location_line(header_lines) ==
    LET plain == {i \in 1..Len(header_lines) :
                     /\ EMAIL_RE_search(header_lines[i]) = <<>>
                     /\ PHONE_RE_search(header_lines[i]) = <<>>
                     /\ URL_RE_search(header_lines[i]) = <<>>}
    IN  IF plain = {} THEN <<>> ELSE strip(header_lines[Min(plain)])

\* parts: the email, the phone, the LinkedIn URL and the GitHub URL that
\* were found, in this order
contact_parts(email, phone, linkedin, github) ==
    (IF email # <<>> THEN <<[kind |-> "email", val |-> email[1]]>> ELSE <<>>)
    \o (IF phone # <<>> THEN <<[kind |-> "phone", val |-> phone[1]]>> ELSE <<>>)
    \o (IF linkedin # <<>> THEN <<[kind |-> "url", val |-> linkedin[1]]>> ELSE <<>>)
    \o (IF github # <<>> THEN <<[kind |-> "url", val |-> github[1]]>> ELSE <<>>)

\* the hyperlink made of one part
part_hyperlink(part, linkedin, github) ==
    IF part.kind = "email"
    THEN add_hyperlink(MAILTO \o part.val, part.val)
    ELSE IF part.kind = "phone"
    THEN add_hyperlink(TEL \o normalize_tel(part.val), part.val)
    ELSE LET label == IF linkedin # <<>> /\ part.val = linkedin[1]
                      THEN LINKEDIN_LABEL
                      ELSE IF github # <<>> /\ part.val = github[1]
                      THEN GITHUB_LABEL
                      ELSE part.val
         IN  add_hyperlink(normalize_url(part.val), label)

\* the runs of the contact line: the hyperlinks of the parts with a
\* " | " run before each but the first
contact_runs(parts, linkedin, github) ==
    [r \in 1..(2 * Len(parts) - 1) |->
        IF r % 2 = 0 THEN add_run(SEPARATOR)
        ELSE part_hyperlink(parts[(r + 1) \div 2], linkedin, github)]

\* the paragraphs flush_header_block adds once email, phone and urls have
\* been extracted from the header block
header_paragraphs(header_lines, email, phone, urls) ==
    LET found == classify_urls(urls, 1, <<>>, <<>>, <<>>)
        loc == location_line(header_lines)
        parts == contact_parts(email, phone, found.linkedin, found.github)
    IN  (IF loc # <<>> THEN <<Paragraph("location", loc, <<>>)>> ELSE <<>>)
        \o (IF parts = <<>>
            THEN [i \in 1..Len(header_lines) |->
                     Paragraph("header_line", strip(header_lines[i]), <<>>)]
            ELSE <<Paragraph("contact", <<>>,
                             contact_runs(parts, found.linkedin, found.github))>>)

\* the paragraphs flush_header_block adds once text has been joined
flush_text(header_lines, text) ==
    CHOOSE doc \in
        {header_paragraphs(header_lines, email, phone, urls) :
            email \in {EMAIL_RE_search(text)},
            phone \in {PHONE_RE_search(text)},
            urls \in {URL_RE_findall(text)}} : TRUE

\* the paragraphs flush_header_block adds for a header block that is not
\* empty
header_block_paragraphs(header_lines) ==
    CHOOSE doc \in
        {flush_text(header_lines, text) :
            text \in {join_space(header_lines)}} : TRUE

\* the state of the loop of md_to_docx before the first line:
\* in_header_block, header_lines and the paragraphs added to doc
mtd_start == [in_header_block |-> FALSE, header_lines |-> <<>>, doc |-> <<>>]

\* flush_header_block(): it returns at once, still in the header block, when
\* no header line has been captured; else it adds the paragraphs of the
\* header block and leaves the block
flush_header_block(st) ==
    IF st.header_lines = <<>> THEN st
    ELSE [in_header_block |-> FALSE,
          header_lines |-> <<>>,
          doc |-> st.doc \o header_block_paragraphs(st.header_lines)]

\* if in_header_block: flush_header_block()
flush_if_in_header_block(st) ==
    IF st.in_header_block THEN flush_header_block(st) ELSE st

NAME_MARK == <<"#"," ">>

H2_MARK == <<"#","#"," ">>

H3_MARK == <<"#","#","#"," ">>

BULLET_MARK == <<"-"," ">>

\* the paragraph of a line outside the header block
body_paragraph(line) ==
    IF startswith(line, H2_MARK)
    THEN Paragraph("h2", strip(SubSeq(line, 4, Len(line))), <<>>)
    ELSE IF startswith(line, H3_MARK)
    THEN Paragraph("h3", strip(SubSeq(line, 5, Len(line))), <<>>)
    ELSE IF startswith(line, BULLET_MARK)
    THEN Paragraph("bullet", strip(SubSeq(line, 3, Len(line))), <<>>)
    ELSE Paragraph("para", strip(line), <<>>)

\* the body of the loop of md_to_docx for one line, right-stripped, from
\* the state st
mtd_line(st, line) ==
    IF strip(line) = <<>> THEN flush_if_in_header_block(st)
    ELSE IF HR_RE_match(line) THEN st
    ELSE IF startswith(line, NAME_MARK)
    THEN [in_header_block |-> TRUE,
          header_lines |-> <<>>,
          doc |-> Append(flush_if_in_header_block(st).doc,
                         Paragraph("name", strip(SubSeq(line, 3, Len(line))),
                                   <<>>))]
    ELSE IF st.in_header_block /\ ~startswith(line, H2_MARK)
    THEN [st EXCEPT !.header_lines = Append(@, strip(line))]
    ELSE [flush_if_in_header_block(st) EXCEPT
             !.doc = Append(@, body_paragraph(line))]

\* the loop of md_to_docx over the lines, from line i on, and the flush
\* after the loop; each pass starts from the state the pass before left
RECURSIVE mtd_loop(_, _, _)
mtd_loop(lines, i, st) ==
    IF i > Len(lines) THEN flush_if_in_header_block(st).doc
    ELSE CHOOSE doc \in
             {mtd_loop(lines, i + 1, next) :
                 next \in {mtd_line(st, rstrip(lines[i]))}} : TRUE

\* the paragraphs of the document md_to_docx saves
docx_paragraphs(lines) == mtd_loop(lines, 1, mtd_start)

-----------------------------------------------------------------------------
(* The pure functions applied on their own to bounded inputs *)

\* all sequences over S of length at most n
BoundedSeq(S, n) == UNION {[1..k -> S] : k \in 0..n}

\* lines for normalize_whitespace: empty, whitespace only, horizontal rules,
\* text ending in forced line-break spaces, text ending in one space
NormLines ==
    { <<>>,
      <<" "," ">>,
      <<"-","-","-">>,
      <<" ","-","-","-"," ">>,
      <<"a"," "," ">>,
      <<"b"," ">>,
      <<"-"," ","b">> }

\* lines for the trim functions: blank, "## Technical Projects", "## X",
\* "### **T**", "### U", "- b", " - c", "p"
TrimLines ==
    { <<>>,
      <<"#","#"," ","T","e","c","h","n","i","c","a","l"," ","P","r","o","j","e","c","t","s">>,
      <<"#","#"," ","X">>,
      <<"#","#","#"," ","*","*","T","*","*">>,
      <<"#","#","#"," ","U">>,
      <<"-"," ","b">>,
      <<" ","-"," ","c">>,
      <<"p">> }

\* titles given to drop_section and trim_bullets_under
TrimTitles == { <<"T">>, <<"U">> }

\* main() is not running
MainIdle ==
    /\ pc = "idle"
    /\ argv_len = 0
    /\ md_exists = FALSE
    /\ md_text = <<>>
    /\ base_lines = <<>>
    /\ cur = <<>>
    /\ fmt_i = 0
    /\ rule_i = 0
    /\ attempts = 0
    /\ pages = 0
    /\ docx = NoFile
    /\ pdf = NoFile
    /\ exit_code = -1
    /\ reported = [attempts |-> 0, rule_i |-> 0]
    /\ nRender = 0
    /\ nConvert = 0
    /\ nCount = 0
    /\ nOnePage = 0
    /\ profAttempts = 0

InitNorm ==
    /\ MainIdle
    /\ FnIdle
    /\ in_lines \in BoundedSeq(NormLines, MaxLen)

InitTrim ==
    /\ MainIdle
    /\ FnIdle
    /\ in_lines \in BoundedSeq(TrimLines, MaxLen)

ApplyNormalizeWhitespace ==
    /\ op = "none"
    /\ op' = "normalize_whitespace"
    /\ out_lines' = normalize_whitespace(in_lines)
    /\ UNCHANGED <<in_lines, arg_title, arg_n>>
    /\ UNCHANGED mainVars

ApplyDropSection ==
    /\ op = "none"
    /\ \E t \in TrimTitles :
        /\ arg_title' = t
        /\ out_lines' = drop_section(in_lines, t)
    /\ op' = "drop_section"
    /\ UNCHANGED <<in_lines, arg_n>>
    /\ UNCHANGED mainVars

ApplyKeepOnlyProjects ==
    /\ op = "none"
    /\ \E n \in 0..MaxKeepN :
        /\ arg_n' = n
        /\ out_lines' = keep_only_projects(in_lines, n)
    /\ op' = "keep_only_projects"
    /\ UNCHANGED <<in_lines, arg_title>>
    /\ UNCHANGED mainVars

ApplyTrimBulletsUnder ==
    /\ op = "none"
    /\ \E t \in TrimTitles, k \in 0..MaxKeepK :
        /\ arg_title' = t
        /\ arg_n' = k
        /\ out_lines' = trim_bullets_under(in_lines, t, k)
    /\ op' = "trim_bullets_under"
    /\ UNCHANGED in_lines
    /\ UNCHANGED mainVars

NextNorm == ApplyNormalizeWhitespace

NextTrim ==
    \/ ApplyDropSection
    \/ ApplyKeepOnlyProjects
    \/ ApplyTrimBulletsUnder

SpecNorm == InitNorm /\ [][NextNorm]_vars

SpecTrim == InitTrim /\ [][NextTrim]_vars

\* header block lines for md_to_docx: "Omaha, NE", "a@b.co",
\* "(402) 555-0199", "linkedin.com/in/x", "https://GitHub.com/y", "x.io"
HeaderBlockLines ==
    { <<"O","m","a","h","a",","," ","N","E">>,
      <<"a","@","b",".","c","o">>,
      <<"(","4","0","2",")"," ","5","5","5","-","0","1","9","9">>,
      <<"l","i","n","k","e","d","i","n",".","c","o","m","/","i","n","/","x">>,
      <<"h","t","t","p","s",":","/","/","G","i","t","H","u","b",".","c","o","m","/","y">>,
      <<"x",".","i","o">> }

\* what follows the header block: the end of the file, a blank line,
\* "## S", or a blank line and the paragraph "p"
AfterHeaderBlock ==
    { <<>>,
      << <<>> >>,
      << <<"#","#"," ","S">> >>,
      << <<>>, <<"p">> >> }

\* the Title line "# N"
TitleLine == <<"#"," ","N">>

InitHeader ==
    /\ MainIdle
    /\ FnIdle
    /\ \E hs \in BoundedSeq(HeaderBlockLines, MaxHeaderLines),
          rest \in AfterHeaderBlock :
          in_lines = <<TitleLine>> \o hs \o rest

ApplyMdToDocx ==
    /\ op = "none"
    /\ op' = "md_to_docx"
    /\ out_lines' = docx_paragraphs(in_lines)
    /\ UNCHANGED <<in_lines, arg_title, arg_n>>
    /\ UNCHANGED mainVars

NextHeader == ApplyMdToDocx

SpecHeader == InitHeader /\ [][NextHeader]_vars

-----------------------------------------------------------------------------
(* Vocabulary of the properties *)

\* the lines of `lines` at the indices in K, in order
Restrict(lines, K) ==
    LET F[i \in 0..Len(lines)] ==
            IF i = 0 THEN <<>>
            ELSE IF i \in K THEN Append(F[i - 1], lines[i]) ELSE F[i - 1]
    IN  F[Len(lines)]

IsBlankLine(ln) == strip(ln) = <<>>

IsSectionHeader(ln) == H2_RE_match(ln)

IsSubsectionHeader(ln) == H3_RE_match(ln)

\* a subsection header whose bold-stripped text equals title
IsTitled(ln, title) ==
    IsSubsectionHeader(ln) /\ strip_md_bold(H3_RE_group(ln)) = title

\* a Bullet of the Line Model: the leading marker is "- "
IsBulletLine(ln) == startswith(rstrip(ln), <<"-"," ">>)

\* index i lies in the scope of a subsection titled title: from the header
\* up to, not including, the next subsection or section header
InTitleScope(lines, title, i) ==
    \E j \in 1..i :
        /\ IsTitled(lines[j], title)
        /\ \A m \in (j + 1)..i :
              ~IsSubsectionHeader(lines[m]) /\ ~IsSectionHeader(lines[m])

ScopeOf(lines, title) == {i \in 1..Len(lines) : InTitleScope(lines, title, i)}

\* the section header that opens the block index i lies in, 0 when none
BlockStart(lines, i) ==
    LET hs == {j \in 1..i : IsSectionHeader(lines[j])}
    IN  IF hs = {} THEN 0 ELSE CHOOSE j \in hs : \A m \in hs : m <= j

IsProjectsHeader(ln) ==
    IsSectionHeader(ln) /\ Contains(upper(ln), TECHNICAL_PROJECT)

InProjectsBlock(lines, i) ==
    BlockStart(lines, i) # 0 /\ IsProjectsHeader(lines[BlockStart(lines, i)])

\* how many subsection headers of its own block precede or are index i
RankInBlock(lines, i) ==
    Cardinality({m \in (BlockStart(lines, i) + 1)..i : IsSubsectionHeader(lines[m])})

-----------------------------------------------------------------------------
(* C1 *)

\* C1: the run stops at the first attempt whose page count is 1: nothing is
\* rendered, converted, counted or trimmed afterwards, the process exits
\* with 0, the reported attempt count is the number of render/convert/count
\* cycles of the whole run and the reported rule is the one applied just
\* before that attempt (none for the untrimmed attempt of a profile); 2
\* pages untrimmed and 1 page after the first rule under the first profile
\* reports 2 attempts and the first rule.
C1_StopAtFirstOnePage ==
    /\ [](nOnePage >= 1 =>
            /\ nOnePage = 1
            /\ pages = 1
            /\ pc \in {"check", "done"})
    /\ []((pc = "done" /\ nOnePage = 1) =>
            /\ exit_code = 0
            /\ nRender = nCount
            /\ nConvert = nCount
            /\ reported.attempts = nCount
            /\ reported.rule_i = profAttempts - 1)
    /\ []((pc = "done" /\ nOnePage = 1 /\ nCount = 2) =>
            reported = [attempts |-> 2, rule_i |-> 1])
    /\ [][nOnePage = 1 =>
            /\ pc' = "done"
            /\ exit_code' = 0
            /\ UNCHANGED <<nRender, nConvert, nCount, attempts, cur, rule_i,
                           fmt_i, docx, pdf>>]_vars

\* two pages untrimmed, one page after the first rule, under the first profile
C1_Witness ==
    /\ pc = "done"
    /\ exit_code = 0
    /\ md_text = ResumeDoc
    /\ nCount = 2
    /\ fmt_i = 1
    /\ reported = [attempts |-> 2, rule_i |-> 1]
    /\ docx.lines = normalize_whitespace(apply_trim_rule(base_lines, TRIM_RULES[1]))

-----------------------------------------------------------------------------
(* C2 *)

\* the rules from the k-th on applied in order, normalizing after each
RECURSIVE AllRulesFrom(_, _)
AllRulesFrom(lines, k) ==
    IF k > Len(TRIM_RULES) THEN lines
    ELSE AllRulesFrom(normalize_whitespace(apply_trim_rule(lines, TRIM_RULES[k])), k + 1)

AllAttempts == Len(FMT_PRESETS) * (1 + Len(TRIM_RULES))

\* C2: when every attempt yields a page count other than 1, main exits with
\* 3 after exactly len(FMT_PRESETS) * (1 + len(TRIM_RULES)) attempts and the
\* files at the output paths are those of the last profile with every rule
\* applied.
C2_ExhaustedLeavesMostReduced ==
    /\ (pc = "done" /\ argv_len = 4 /\ md_exists /\ nOnePage = 0) =>
          /\ exit_code = 3
          /\ attempts = AllAttempts
          /\ nRender = AllAttempts
          /\ nConvert = AllAttempts
          /\ nCount = AllAttempts
          /\ docx = [written |-> TRUE,
                     lines |-> AllRulesFrom(base_lines, 1),
                     fmt_i |-> Len(FMT_PRESETS)]
          /\ pdf = docx
    /\ exit_code = 3 => (pc = "done" /\ nOnePage = 0)

\* the fit loop was exhausted on the resume and left a shorter document
C2_Witness ==
    /\ pc = "done"
    /\ exit_code = 3
    /\ md_text = ResumeDoc
    /\ pdf.written
    /\ Len(pdf.lines) < Len(base_lines)

-----------------------------------------------------------------------------
(* C3 *)

NoSideEffects ==
    /\ docx = NoFile
    /\ pdf = NoFile
    /\ nRender = 0
    /\ nConvert = 0
    /\ nCount = 0
    /\ attempts = 0

\* C3: with an argument count other than three main exits with 2, with a
\* missing source with 1, and in both cases writes no document, invokes no
\* conversion, reads no page count and never increments the attempt counter.
C3_UsageAndMissingInput ==
    /\ argv_len # 4 =>
          /\ pc \in {"start", "done"}
          /\ pc = "done" => exit_code = 2
          /\ NoSideEffects
    /\ (argv_len = 4 /\ ~md_exists) =>
          /\ pc \in {"start", "done"}
          /\ pc = "done" => exit_code = 1
          /\ NoSideEffects

\* main was run on a missing source and has exited
C3_Witness ==
    /\ pc = "done"
    /\ argv_len = 4
    /\ ~md_exists
    /\ exit_code = 1

-----------------------------------------------------------------------------
(* C8 *)

\* C8: the first attempt of every profile renders base_lines, which never
\* changes after it is read; within a profile attempt j+1 renders
\* normalize_whitespace(apply_trim_rule(s, rule_j)) for the sequence s of
\* attempt j and the j-th rule of TRIM_RULES.
C8_RulesAccumulatePerProfile ==
    /\ [][nRender' = nRender + 1 =>
            /\ docx'.fmt_i = fmt_i
            /\ profAttempts' = 1 => docx'.lines = base_lines
            /\ profAttempts' > 1 =>
                  \E j \in 1..Len(TRIM_RULES) :
                      /\ j = profAttempts' - 1
                      /\ docx'.lines =
                            normalize_whitespace(apply_trim_rule(docx.lines, TRIM_RULES[j]))]_vars
    /\ [][pc # "start" => base_lines' = base_lines]_vars

\* the second rule was applied on top of the first under the second profile
C8_Witness ==
    /\ pc = "convert"
    /\ md_text = ResumeDoc
    /\ fmt_i = 2
    /\ profAttempts = 3
    /\ pdf.fmt_i = 2
    /\ docx.lines = normalize_whitespace(apply_trim_rule(pdf.lines, TRIM_RULES[2]))
    /\ docx.lines # pdf.lines
    /\ pdf.lines # base_lines

-----------------------------------------------------------------------------
(* C9 *)

\* C9 as stated: the sequence rendered at any attempt has no more lines than
\* the one rendered at the attempt before.
C9_NeverGrows ==
    [][(nRender' = nRender + 1 /\ docx.written) =>
            Len(docx'.lines) <= Len(docx.lines)]_vars

\* C9: within one profile the sequence rendered at an attempt has no more
\* lines than the one rendered at the attempt before; the first attempt of
\* a later profile renders base_lines again, which has at least as many lines.
C9_NeverGrowsWithinProfile ==
    [][(nRender' = nRender + 1 /\ docx.written) =>
            IF docx'.fmt_i = docx.fmt_i
            THEN Len(docx'.lines) <= Len(docx.lines)
            ELSE /\ docx'.lines = base_lines
                 /\ Len(docx'.lines) >= Len(docx.lines)]_vars

\* a rule shortened the sequence rendered under the same profile
C9_Witness ==
    /\ pc = "convert"
    /\ pdf.written
    /\ docx.fmt_i = pdf.fmt_i
    /\ Len(docx.lines) < Len(pdf.lines)

-----------------------------------------------------------------------------
(* C4 *)

\* C4: normalize_whitespace is idempotent: normalizing its result again
\* gives the same result.
C4_NormalizeIdempotent ==
    op = "normalize_whitespace" =>
        normalize_whitespace(out_lines) = out_lines

\* a horizontal rule between two blank lines and a line ending in forced
\* line-break spaces were normalized
C4_Witness ==
    /\ op = "normalize_whitespace"
    /\ \E i \in 1..(Len(in_lines) - 2) :
          /\ IsBlankLine(in_lines[i])
          /\ HR_RE_match(in_lines[i + 1])
          /\ IsBlankLine(in_lines[i + 2])
    /\ \E j \in 1..Len(in_lines) :
          /\ ~IsBlankLine(in_lines[j])
          /\ Len(in_lines[j]) - Len(rstrip(in_lines[j])) >= 2
    /\ Len(out_lines) = 2

-----------------------------------------------------------------------------
(* C5 *)

\* C5: keep_only_projects(lines, n) keeps, in every section block whose
\* header contains TECHNICAL PROJECT, exactly the first min(n, c) subsection
\* blocks of that block, drops the later ones of that block, and keeps every
\* other line.
C5_KeepFirstNPerBlock ==
    op = "keep_only_projects" =>
        out_lines = Restrict(in_lines,
                        {i \in 1..Len(in_lines) :
                            ~(InProjectsBlock(in_lines, i)
                              /\ RankInBlock(in_lines, i) > arg_n)})

-----------------------------------------------------------------------------
(* C6 *)

BulletsInScope(lines, title) ==
    Cardinality({i \in ScopeOf(lines, title) : IsBulletLine(lines[i])})

\* C6: trim_bullets_under(lines, title, k) never increases the number of
\* Bullet lines in the scope of title and removes no non-Bullet line of that
\* scope, a Bullet being a line with the leading marker "- ".
C6_TrimKeepsNonBullets ==
    op = "trim_bullets_under" =>
        /\ BulletsInScope(out_lines, arg_title) <= BulletsInScope(in_lines, arg_title)
        /\ \E K \in SUBSET (1..Len(in_lines)) :
              /\ \A i \in ScopeOf(in_lines, arg_title) :
                    ~IsBulletLine(in_lines[i]) => i \in K
              /\ out_lines = Restrict(in_lines, K)

-----------------------------------------------------------------------------
(* C7 *)

\* C7: drop_section(lines, title) removes exactly the subsection headers
\* titled title with the lines after each up to the next subsection or
\* section header, and keeps every other line in order; with no such header
\* the result is the input.
C7_DropSectionExact ==
    op = "drop_section" =>
        /\ out_lines = Restrict(in_lines,
                           (1..Len(in_lines)) \ ScopeOf(in_lines, arg_title))
        /\ (\A i \in 1..Len(in_lines) : ~IsTitled(in_lines[i], arg_title))
              => out_lines = in_lines

\* a titled subsection with a body line was dropped and the section header
\* after it was kept
C7_Witness ==
    /\ op = "drop_section"
    /\ \E j \in 1..(Len(in_lines) - 2) :
          /\ IsTitled(in_lines[j], arg_title)
          /\ ~IsSubsectionHeader(in_lines[j + 1])
          /\ ~IsSectionHeader(in_lines[j + 1])
          /\ IsSectionHeader(in_lines[j + 2])
    /\ Len(out_lines) = Len(in_lines) - 2

-----------------------------------------------------------------------------
(* C10 *)

\* C10: trim_bullets_under(lines, title, k) leaves every line outside the
\* scope of a subsection titled title unchanged; bullets after a later
\* section header are all kept.
C10_TrimFrame ==
    op = "trim_bullets_under" =>
        \E K \in SUBSET (1..Len(in_lines)) :
            /\ \A i \in 1..Len(in_lines) :
                  ~InTitleScope(in_lines, arg_title, i) => i \in K
            /\ out_lines = Restrict(in_lines, K)

-----------------------------------------------------------------------------
(* C11 *)

\* the Title line of a document
IsTitleLine(ln) == startswith(rstrip(ln), NAME_MARK)

\* the header block of a document: the non-blank lines that follow the
\* Title line, up to the first blank line or SectionHeader
HeaderBlock(lines) ==
    LET titles == {i \in 1..Len(lines) : IsTitleLine(lines[i])}
    IN  IF titles = {} THEN <<>>
        ELSE LET t == Min(titles)
                 stops == {j \in (t + 1)..Len(lines) :
                              IsBlankLine(lines[j]) \/ IsSectionHeader(lines[j])}
                 last == IF stops = {} THEN Len(lines) ELSE Min(stops) - 1
             IN  [j \in 1..(last - t) |-> strip(lines[t + j])]

\* s ends with suffix
endswith(s, suffix) ==
    /\ Len(s) >= Len(suffix)
    /\ SubSeq(s, Len(s) - Len(suffix) + 1, Len(s)) = suffix

\* the label of the link of a URL token
UrlLabel(u) ==
    IF Contains(lower(u), LINKEDIN_COM) THEN LINKEDIN_LABEL
    ELSE IF Contains(lower(u), GITHUB_COM) THEN GITHUB_LABEL
    ELSE u

\* the runs are links joined by " | "
JoinedLinks(runs) ==
    /\ Len(runs) % 2 = 1
    /\ \A r \in 1..Len(runs) :
          IF r % 2 = 1 THEN runs[r].hyperlink
          ELSE runs[r] = add_run(SEPARATOR)

\* C11: when the header block of the document given to md_to_docx holds an
\* email, a phone or a URL token, the document has exactly one contact line;
\* its runs are links joined by " | "; the email and the phone are among
\* them under their literal value, and so is every URL, labeled "LinkedIn"
\* or "GitHub" when it is one and with its literal value otherwise.  The
\* tokens are those the patterns of the program extract from the joined
\* header block: the first email, the first phone and every URL; a URL that
\* is the tail of the email itself is not counted as a token of its own.
C11_ContactLineHoldsEveryToken ==
    op = "md_to_docx" =>
        \A text \in {join_space(HeaderBlock(in_lines))} :
        \A email \in {EMAIL_RE_search(text)},
           phone \in {PHONE_RE_search(text)},
           urls \in {URL_RE_findall(text)} :
            (email # <<>> \/ phone # <<>> \/ urls # <<>>) =>
                /\ Cardinality({i \in 1..Len(out_lines) :
                                   out_lines[i].kind = "contact"}) = 1
                /\ \A i \in {j \in 1..Len(out_lines) :
                                out_lines[j].kind = "contact"} :
                      LET runs == out_lines[i].runs
                      IN  /\ JoinedLinks(runs)
                          /\ email # <<>> =>
                                \E r \in 1..Len(runs) :
                                    runs[r] = add_hyperlink(MAILTO \o email[1],
                                                            email[1])
                          /\ phone # <<>> =>
                                \E r \in 1..Len(runs) :
                                    runs[r] = add_hyperlink(
                                                  TEL \o normalize_tel(phone[1]),
                                                  phone[1])
                          /\ \A k \in 1..Len(urls) :
                                (email = <<>> \/ ~endswith(email[1], urls[k])) =>
                                    \E r \in 1..Len(runs) :
                                        runs[r] = add_hyperlink(
                                                      normalize_url(urls[k]),
                                                      UrlLabel(urls[k]))

=============================================================================
